---------------------------- MODULE Spec2Model ----------------------------
(* L2Book (src/rust/src/lib.rs): a two-sided price-level book kept in two   *)
(* IndexMap<OrderedFloat<f64>, f64>.  A side is the sequence of its         *)
(* (price, size) entries in the map's iteration order.  Prices are f64     *)
(* values: finite ones, NaN and +infinity (-infinity behaves as its mirror  *)
(* image and is left out; 0.0 and -0.0 are one key and compare equal, so    *)
(* they are one value here); sizes are finite numbers and, in the          *)
(* specification SpecOk, +infinity.                                         *)
(* A panic inside a call unwinds to the caller (PyO3 turns it into a        *)
(* PanicException); the book stays as the call left it and can be used on.  *)
EXTENDS Integers, Sequences, FiniteSets

(***************************************************************************)
(* Bounds of the model                                                     *)
(***************************************************************************)
\* finite prices are 0..MaxPrice
MaxPrice == 1
\* sizes are 0..MaxSize
MaxSize == 2
\* a call carries at most MaxBatch entries, bids and asks together
MaxBatch == 2
\* the model explores books of at most MaxLevels levels a side
MaxLevels == 2
\* imbalance is asked for the depths 0..MaxDepth
MaxDepth == 3

(***************************************************************************)
(* f64 prices                                                              *)
(***************************************************************************)
Fin(n) == [k |-> "fin", v |-> n]
NaN == [k |-> "nan", v |-> 0]
PosInf == [k |-> "inf", v |-> 1]

is_nan(p) == p.k = "nan"
is_finite(p) == p.k = "fin"

\* a < b on non-NaN f64 values
f64_lt(a, b) ==
    /\ a.k = "fin"
    /\ IF b.k = "fin" THEN a.v < b.v ELSE b = PosInf

\* f64::partial_cmp: None as soon as one operand is NaN
partial_cmp(a, b) ==
    IF is_nan(a) \/ is_nan(b) THEN "None"
    ELSE IF a = b THEN "Equal"
    ELSE IF f64_lt(a, b) THEN "Less"
    ELSE "Greater"

Prices == {Fin(n) : n \in 0..MaxPrice} \cup {NaN, PosInf}
Sizes == 0..MaxSize
Entries == [p : Prices, s : Sizes]

\* the size f64::INFINITY, written as the number after the finite sizes: it
\* is greater than 0.0 and than every finite size as the f64 is
InfSize == MaxSize + 1
SizesWithInf == Sizes \cup {InfSize}
EntriesWithInf == [p : Prices, s : SizesWithInf]

\* the (bids, asks) arguments of one call: two Vec<(f64, f64)>
\* holding at most MaxBatch entries together
BatchesOf(E) ==
    UNION {[1..n[1] -> E] \X [1..n[2] -> E] :
              n \in {x \in (0..MaxBatch) \X (0..MaxBatch) : x[1] + x[2] <= MaxBatch}}
Batches == BatchesOf(Entries)
BatchesWithInf == BatchesOf(EntriesWithInf)

(***************************************************************************)
(* slice::sort_by with the closures of lines 33, 42, 124, 126              *)
(***************************************************************************)
\* a comparator that orders the asks as the bids, by descending price
compare_descending(side, a, b) == partial_cmp(b.p, a.p)

\* the comparator closure of a side, before its unwrap()
compare(side, a, b) ==
    IF side = "bids" THEN partial_cmp(b.p, a.p) ELSE partial_cmp(a.p, b.p)

\* a sort that is not stable: x also moves left of an equal predecessor
RECURSIVE insert_tail_unstable(_, _, _)
insert_tail_unstable(side, w, x) ==
    IF w = <<>> THEN [panic |-> FALSE, v |-> <<x>>]
    ELSE LET c == compare(side, x, w[Len(w)]) IN
         IF c = "None" THEN [panic |-> TRUE, v |-> w]
         ELSE IF c \in {"Less", "Equal"}
              THEN LET r == insert_tail_unstable(side, SubSeq(w, 1, Len(w) - 1), x) IN
                   [panic |-> r.panic, v |-> Append(r.v, w[Len(w)])]
              ELSE [panic |-> FALSE, v |-> Append(w, x)]

\* insert x into the sorted prefix w, moving left while x is less than its
\* predecessor; unwrap() of None panics
RECURSIVE insert_tail(_, _, _)
insert_tail(side, w, x) ==
    IF w = <<>> THEN [panic |-> FALSE, v |-> <<x>>]
    ELSE LET c == compare(side, x, w[Len(w)]) IN
         IF c = "None" THEN [panic |-> TRUE, v |-> w]
         ELSE IF c = "Less"
              THEN LET r == insert_tail(side, SubSeq(w, 1, Len(w) - 1), x) IN
                   [panic |-> r.panic, v |-> Append(r.v, w[Len(w)])]
              ELSE [panic |-> FALSE, v |-> Append(w, x)]

\* stable insertion sort (the standard library's sort of a short slice);
\* a slice of fewer than two elements is returned without a comparison
RECURSIVE sort_by(_, _)
sort_by(side, v) ==
    IF Len(v) < 2 THEN [panic |-> FALSE, v |-> v]
    ELSE LET r == sort_by(side, SubSeq(v, 1, Len(v) - 1)) IN
         IF r.panic THEN r ELSE insert_tail(side, r.v, v[Len(v)])

(***************************************************************************)
(* IndexMap<OrderedFloat<f64>, f64>                                        *)
(***************************************************************************)
\* position of key p (OrderedFloat equality: NaN equals NaN), 0 if absent
get_index_of(m, p) ==
    IF \E i \in 1..Len(m) : m[i].p = p
    THEN CHOOSE i \in 1..Len(m) : m[i].p = p
    ELSE 0

\* the size held at price p, 0 where the side has no level at p
SizeAt(m, p) ==
    IF \E i \in 1..Len(m) : m[i].p = p
    THEN m[CHOOSE i \in 1..Len(m) : m[i].p = p].s
    ELSE 0

\* an insert that leaves an existing key's value alone
insert_keep_existing(m, p, s) ==
    IF get_index_of(m, p) = 0 THEN Append(m, [p |-> p, s |-> s]) ELSE m

\* IndexMap::insert: an existing key keeps its position and gets the value,
\* a new key is appended
insert(m, p, s) ==
    LET i == get_index_of(m, p) IN
    IF i = 0 THEN Append(m, [p |-> p, s |-> s])
    ELSE [m EXCEPT ![i] = [p |-> p, s |-> s]]

\* IndexMap::swap_remove: the last entry takes the place of the removed one
swap_remove(m, p) ==
    LET i == get_index_of(m, p)
        n == Len(m) IN
    IF i = 0 THEN m
    ELSE [j \in 1..(n - 1) |-> IF j = i THEN m[n] ELSE m[j]]

(***************************************************************************)
(* L2Book                                                                  *)
(***************************************************************************)
\* the test written `s >= 0.0`
size_positive_or_zero(s) == s >= 0

\* the test `s > 0.0` of lines 35, 44, 55, 64
size_positive(s) == s > 0

\* lines 34-39 / 43-48: insert the sorted entries whose size is positive
RECURSIVE insert_positive(_, _)
insert_positive(m, v) ==
    IF v = <<>> THEN m
    ELSE insert_positive(IF size_positive(v[1].s) THEN insert(m, v[1].p, v[1].s)
                         ELSE m,
                         Tail(v))

\* a snapshot that does not clear the book first
apply_snapshot_no_clear(bk, b, a) ==
    LET bb == sort_by("bids", b)
        aa == sort_by("asks", a) IN
    IF bb.panic THEN [bids |-> bk.bids, asks |-> bk.asks, result |-> "Panic"]
    ELSE LET nb == insert_positive(bk.bids, bb.v) IN
         IF aa.panic THEN [bids |-> nb, asks |-> bk.asks, result |-> "Panic"]
         ELSE [bids |-> nb, asks |-> insert_positive(bk.asks, aa.v), result |-> "Ok"]

\* a snapshot that adds its sizes to the levels the book already holds
RECURSIVE add_positive(_, _)
add_positive(m, v) ==
    IF v = <<>> THEN m
    ELSE add_positive(IF size_positive(v[1].s)
                      THEN insert(m, v[1].p, SizeAt(m, v[1].p) + v[1].s)
                      ELSE m,
                      Tail(v))

apply_snapshot_accumulate(bk, b, a) ==
    LET bb == sort_by("bids", b)
        aa == sort_by("asks", a) IN
    IF bb.panic THEN [bids |-> bk.bids, asks |-> bk.asks, result |-> "Panic"]
    ELSE LET nb == add_positive(bk.bids, bb.v) IN
         IF aa.panic THEN [bids |-> nb, asks |-> bk.asks, result |-> "Panic"]
         ELSE [bids |-> nb, asks |-> add_positive(bk.asks, aa.v), result |-> "Ok"]

\* apply_snapshot: the book after the call and how the call ended.  A panic
\* of a sort unwinds out of the call and leaves the book as it is then.
apply_snapshot(bk, b, a) ==
    LET bb == sort_by("bids", b)
        aa == sort_by("asks", a) IN
    IF bb.panic THEN [bids |-> <<>>, asks |-> <<>>, result |-> "Panic"]
    ELSE LET nb == insert_positive(<<>>, bb.v) IN
         IF aa.panic THEN [bids |-> nb, asks |-> <<>>, result |-> "Panic"]
         ELSE [bids |-> nb, asks |-> insert_positive(<<>>, aa.v), result |-> "Ok"]

\* lines 54-62 / 63-71: one side of a delta, entry by entry
RECURSIVE merge_side(_, _)
merge_side(m, v) ==
    IF v = <<>> THEN m
    ELSE merge_side(IF size_positive(v[1].s) THEN insert(m, v[1].p, v[1].s)
                    ELSE swap_remove(m, v[1].p),
                    Tail(v))

\* a reorder that rebuilds the maps without sorting
reorder_unsorted(bk) == [bids |-> bk.bids, asks |-> bk.asks, result |-> "Ok"]

\* reorder: both sides are collected and sorted before either map is rebuilt
reorder(bk) ==
    LET bb == sort_by("bids", bk.bids)
        aa == sort_by("asks", bk.asks) IN
    IF bb.panic \/ aa.panic
    THEN [bids |-> bk.bids, asks |-> bk.asks, result |-> "Panic"]
    ELSE [bids |-> bb.v, asks |-> aa.v, result |-> "Ok"]

\* best bid price >= best ask price
crossed(bk) ==
    /\ bk.bids # <<>>
    /\ bk.asks # <<>>
    /\ partial_cmp(bk.bids[1].p, bk.asks[1].p) \in {"Greater", "Equal"}

\* a delta that refuses a batch that would leave the book crossed
apply_delta_reject_crossed(bk, b, a) ==
    LET r == reorder([bids |-> merge_side(bk.bids, b), asks |-> merge_side(bk.asks, a)]) IN
    IF r.result = "Ok" /\ crossed(r)
    THEN [bids |-> bk.bids, asks |-> bk.asks, result |-> "CrossedBookError"]
    ELSE r

apply_delta(bk, b, a) ==
    reorder([bids |-> merge_side(bk.bids, b), asks |-> merge_side(bk.asks, a)])

(***************************************************************************)
(* f64 arithmetic of the queries                                           *)
(***************************************************************************)
\* A value is a fraction n/d in lowest terms with d > 0, an infinity with
\* sign n, or NaN.  Finite results are exact: the rounding of f64 is not
\* followed, and 0.0 and -0.0 are one value.
Abs(n) == IF n < 0 THEN -n ELSE n
Sign(n) == IF n > 0 THEN 1 ELSE IF n < 0 THEN -1 ELSE 0

RECURSIVE Gcd(_, _)
Gcd(a, b) == IF b = 0 THEN a ELSE Gcd(b, a % b)

Rat(n, d) ==
    LET g == Gcd(Abs(n), Abs(d)) IN
    [k |-> "fin", n |-> (Sign(d) * n) \div g, d |-> Abs(d) \div g]
F64Inf(sign) == [k |-> "inf", n |-> sign, d |-> 1]
F64NaN == [k |-> "nan", n |-> 0, d |-> 1]
F64Zero == Rat(0, 1)

\* a stored price and a stored size as values
price_f64(p) ==
    IF p.k = "fin" THEN Rat(p.v, 1)
    ELSE IF p.k = "inf" THEN F64Inf(p.v)
    ELSE F64NaN
size_f64(s) == IF s = InfSize THEN F64Inf(1) ELSE Rat(s, 1)

f64_add(x, y) ==
    IF x.k = "nan" \/ y.k = "nan" THEN F64NaN
    ELSE IF x.k = "inf" /\ y.k = "inf" THEN (IF x.n = y.n THEN x ELSE F64NaN)
    ELSE IF x.k = "inf" THEN x
    ELSE IF y.k = "inf" THEN y
    ELSE Rat(x.n * y.d + y.n * x.d, x.d * y.d)

f64_sub(x, y) ==
    f64_add(x, IF y.k = "nan" THEN y ELSE [y EXCEPT !.n = -y.n])

f64_mul(x, y) ==
    IF x.k = "nan" \/ y.k = "nan" THEN F64NaN
    ELSE IF x.k = "inf" \/ y.k = "inf"
         THEN (IF x.n = 0 \/ y.n = 0 THEN F64NaN ELSE F64Inf(Sign(x.n) * Sign(y.n)))
    ELSE Rat(x.n * y.n, x.d * y.d)

f64_div(x, y) ==
    IF x.k = "nan" \/ y.k = "nan" THEN F64NaN
    ELSE IF x.k = "inf" /\ y.k = "inf" THEN F64NaN
    ELSE IF x.k = "inf" THEN F64Inf(IF y.n < 0 THEN -x.n ELSE x.n)
    ELSE IF y.k = "inf" THEN F64Zero
    ELSE IF y.n = 0 THEN (IF x.n = 0 THEN F64NaN ELSE F64Inf(Sign(x.n)))
    ELSE Rat(x.n * y.d, x.d * y.n)

\* x > 0.0 and x == 0.0
f64_gt_zero(x) == x.k # "nan" /\ x.n > 0
f64_eq_zero(x) == x.k = "fin" /\ x.n = 0

(***************************************************************************)
(* Queries                                                                 *)
(***************************************************************************)
\* Option<T>: the empty sequence is None, a one-element sequence is Some
None == <<>>
Some(x) == <<x>>

\* lines 78-81 and 84-87: the first entry of the side's map
best_bid(bk) == IF bk.bids = <<>> THEN None ELSE Some(bk.bids[1])
best_ask(bk) == IF bk.asks = <<>> THEN None ELSE Some(bk.asks[1])

\* a mid() whose guard is written `bp >= 0.0 && ap >= 0.0`
mid_nonnegative(bk) ==
    LET bid == best_bid(bk)
        ask == best_ask(bk) IN
    IF /\ bid # None
       /\ ask # None
       /\ ~is_nan(bid[1].p)
       /\ ~is_nan(ask[1].p)
    THEN Some(f64_div(f64_add(price_f64(bid[1].p), price_f64(ask[1].p)), Rat(2, 1)))
    ELSE None

\* lines 89-94
mid(bk) ==
    LET bid == best_bid(bk)
        ask == best_ask(bk) IN
    IF /\ bid # None
       /\ ask # None
       /\ f64_gt_zero(price_f64(bid[1].p))
       /\ f64_gt_zero(price_f64(ask[1].p))
    THEN Some(f64_div(f64_add(price_f64(bid[1].p), price_f64(ask[1].p)), Rat(2, 1)))
    ELSE None

\* a microprice that gives no value where mid() gives none
microprice_needs_mid(bk) ==
    LET bid == best_bid(bk)
        ask == best_ask(bk) IN
    IF mid(bk) = None THEN None
    ELSE LET bp == price_f64(bid[1].p)
             bs == size_f64(bid[1].s)
             ap == price_f64(ask[1].p)
             asz == size_f64(ask[1].s)
             total == f64_add(bs, asz) IN
         IF f64_gt_zero(total)
         THEN Some(f64_add(f64_mul(bp, f64_div(asz, total)),
                           f64_mul(ap, f64_div(bs, total))))
         ELSE mid(bk)

\* a microprice that weights each best price by its own side's size
microprice_own_weights(bk) ==
    LET bid == best_bid(bk)
        ask == best_ask(bk) IN
    IF bid # None /\ ask # None
    THEN LET bp == price_f64(bid[1].p)
             bs == size_f64(bid[1].s)
             ap == price_f64(ask[1].p)
             asz == size_f64(ask[1].s)
             total == f64_add(bs, asz) IN
         IF f64_gt_zero(total)
         THEN LET bw == f64_div(bs, total)
                  aw == f64_div(asz, total) IN
              Some(f64_add(f64_mul(bp, bw), f64_mul(ap, aw)))
         ELSE mid(bk)
    ELSE mid(bk)

\* lines 96-107
microprice(bk) ==
    LET bid == best_bid(bk)
        ask == best_ask(bk) IN
    IF bid # None /\ ask # None
    THEN LET bp == price_f64(bid[1].p)
             bs == size_f64(bid[1].s)
             ap == price_f64(ask[1].p)
             asz == size_f64(ask[1].s)
             total == f64_add(bs, asz) IN
         IF f64_gt_zero(total)
         THEN LET bw == f64_div(asz, total)
                  aw == f64_div(bs, total) IN
              Some(f64_add(f64_mul(bp, bw), f64_mul(ap, aw)))
         ELSE mid(bk)
    ELSE mid(bk)

\* iter().take(depth)
take(m, depth) == SubSeq(m, 1, IF depth < Len(m) THEN depth ELSE Len(m))

\* map(|(_, s)| *s).sum(): the sizes added up from 0.0 in iteration order
RECURSIVE sum(_)
sum(m) ==
    IF m = <<>> THEN F64Zero
    ELSE f64_add(sum(SubSeq(m, 1, Len(m) - 1)), size_f64(m[Len(m)].s))

\* lines 109-118
imbalance(bk, depth) ==
    LET bid_vol == sum(take(bk.bids, depth))
        ask_vol == sum(take(bk.asks, depth))
        tot == f64_add(bid_vol, ask_vol) IN
    IF f64_eq_zero(tot) THEN F64Zero
    ELSE f64_div(f64_sub(bid_vol, ask_vol), tot)

(***************************************************************************)
(* State machine                                                           *)
(***************************************************************************)
\* bids, asks: the two maps of the book.
\* op: the method that has just returned, "none" between calls.
\* result: how that call ended ("Ok", or "Panic" for an unwinding panic),
\*   "none" between calls.
\* argBids, argAsks: the arguments of that call.
\* preBids, preAsks: the book as it was when that call was made.
VARIABLES bids, asks, op, result, argBids, argAsks, preBids, preAsks

vars == <<bids, asks, op, result, argBids, argAsks, preBids, preAsks>>

Book == [bids |-> bids, asks |-> asks]

Fits(r, cap) == Len(r.bids) <= cap /\ Len(r.asks) <= cap

\* L2Book::new
Init ==
    /\ bids = <<>>
    /\ asks = <<>>
    /\ op = "new"
    /\ result = "Ok"
    /\ argBids = <<>>
    /\ argAsks = <<>>
    /\ preBids = <<>>
    /\ preAsks = <<>>

\* a clear that empties the bids and leaves the asks
ClearBidsOnly ==
    /\ op = "none"
    /\ bids' = <<>>
    /\ asks' = asks
    /\ op' = "clear"
    /\ result' = "Ok"
    /\ preBids' = bids
    /\ preAsks' = asks
    /\ UNCHANGED <<argBids, argAsks>>

Clear ==
    /\ op = "none"
    /\ bids' = <<>>
    /\ asks' = <<>>
    /\ op' = "clear"
    /\ result' = "Ok"
    /\ preBids' = bids
    /\ preAsks' = asks
    /\ UNCHANGED <<argBids, argAsks>>

\* a call of apply_snapshot with arguments drawn from B, on books of at most
\* cap levels a side
SnapshotCall(B, cap) ==
    /\ op = "none"
    /\ \E bb \in B :
          LET r == apply_snapshot(Book, bb[1], bb[2]) IN
          /\ Fits(r, cap)
          /\ bids' = r.bids
          /\ asks' = r.asks
          /\ result' = r.result
          /\ argBids' = bb[1]
          /\ argAsks' = bb[2]
    /\ op' = "apply_snapshot"
    /\ preBids' = bids
    /\ preAsks' = asks

\* a call of apply_delta with arguments drawn from B
DeltaCall(B, cap) ==
    /\ op = "none"
    /\ \E bb \in B :
          LET r == apply_delta(Book, bb[1], bb[2]) IN
          /\ Fits(r, cap)
          /\ bids' = r.bids
          /\ asks' = r.asks
          /\ result' = r.result
          /\ argBids' = bb[1]
          /\ argAsks' = bb[2]
    /\ op' = "apply_delta"
    /\ preBids' = bids
    /\ preAsks' = asks

ApplySnapshot == SnapshotCall(Batches, MaxLevels)

ApplyDelta == DeltaCall(Batches, MaxLevels)

\* the caller has seen the outcome; the record of the call is dropped
Return ==
    /\ op # "none"
    /\ op' = "none"
    /\ result' = "none"
    /\ argBids' = <<>>
    /\ argAsks' = <<>>
    /\ preBids' = <<>>
    /\ preAsks' = <<>>
    /\ UNCHANGED <<bids, asks>>

Next == Clear \/ ApplySnapshot \/ ApplyDelta \/ Return

Spec == Init /\ [][Next]_vars

\* The calls that succeed, with sizes that may be infinite: the states
\* reachable by successful calls alone.
ApplySnapshotOk == SnapshotCall(BatchesWithInf, MaxLevels) /\ result' = "Ok"

ApplyDeltaOk == DeltaCall(BatchesWithInf, MaxLevels) /\ result' = "Ok"

NextOk == Clear \/ ApplySnapshotOk \/ ApplyDeltaOk \/ Return

SpecOk == Init /\ [][NextOk]_vars

\* Books of one more level a side, with the sizes 0..MaxSize - 1.
DeepEntries == [p : Prices, s : 0..(MaxSize - 1)]
DeepBatches == BatchesOf(DeepEntries)
DeepLevels == MaxLevels + 1

ApplySnapshotDeep == SnapshotCall(DeepBatches, DeepLevels)

ApplyDeltaDeep == DeltaCall(DeepBatches, DeepLevels)

NextDeep == Clear \/ ApplySnapshotDeep \/ ApplyDeltaDeep \/ Return

SpecDeep == Init /\ [][NextDeep]_vars

TypeOK ==
    /\ op \in {"none", "new", "clear", "apply_snapshot", "apply_delta"}
    /\ result \in {"Ok", "Panic", "none"}
(***************************************************************************)
(* Vocabulary of the properties                                            *)
(***************************************************************************)
Updated == op \in {"apply_snapshot", "apply_delta"}

Levels(m) == {m[i] : i \in 1..Len(m)}
PricesOf(m) == {m[i].p : i \in 1..Len(m)}

StrictlyDescending(m) ==
    \A i \in 1..(Len(m) - 1) : partial_cmp(m[i].p, m[i + 1].p) = "Greater"
StrictlyAscending(m) ==
    \A i \in 1..(Len(m) - 1) : partial_cmp(m[i].p, m[i + 1].p) = "Less"
NoDuplicatePrice(m) ==
    \A i, j \in 1..Len(m) : i # j => m[i].p # m[j].p

NonFinitePrice(v) == \E i \in 1..Len(v) : ~is_finite(v[i].p)
FinitePrices(v) == \A i \in 1..Len(v) : is_finite(v[i].p)

\* the prices of the entries of v that carry a positive size
PositivePrices(v) == {v[i].p : i \in {j \in 1..Len(v) : v[j].s > 0}}

\* the positions of v that name price p with a positive size
PositiveAt(v, p) == {i \in 1..Len(v) : v[i].p = p /\ v[i].s > 0}
Last(S) == CHOOSE i \in S : \A j \in S : j <= i

\* the depths imbalance is asked for
Depths == 0..MaxDepth

\* a side as a map from price to size, 0 where the side has no level
AsMap(m) == [p \in Prices |-> SizeAt(m, p)]

\* entry-by-entry processing on a price-to-size map: a positive size sets
\* the level, any other size deletes it
RECURSIVE Processed(_, _)
Processed(f, v) ==
    IF v = <<>> THEN f
    ELSE Processed([f EXCEPT ![v[1].p] = IF v[1].s > 0 THEN v[1].s ELSE 0],
                   Tail(v))

\* every entry of v asks to remove a price that side m does not hold
AbsentRemovals(m, v) ==
    \A i \in 1..Len(v) : v[i].s <= 0 /\ v[i].p \notin PricesOf(m)

(***************************************************************************)
(* C1  Sort invariant                                                      *)
(***************************************************************************)
\* C1: after every call of any sequence of apply_snapshot, apply_delta and
\* clear calls the bids are strictly descending by price, the asks strictly
\* ascending, and no price occurs twice on a side.
C1_SortInvariant ==
    /\ StrictlyDescending(bids) /\ NoDuplicatePrice(bids)
    /\ StrictlyAscending(asks) /\ NoDuplicatePrice(asks)

(***************************************************************************)
(* C2  NaN rejection                                                       *)
(***************************************************************************)
\* C2: every apply_snapshot or apply_delta whose bid or ask batch holds an
\* entry with a NaN or infinite price ends with InvalidPriceError; it
\* neither succeeds nor aborts.
C2_NonFiniteRejected ==
    (Updated /\ (NonFinitePrice(argBids) \/ NonFinitePrice(argAsks)))
        => result = "InvalidPriceError"

(***************************************************************************)
(* C3  No partial application                                              *)
(***************************************************************************)
\* C3: when an apply_snapshot or apply_delta does not complete successfully,
\* both sides hold exactly the levels, in the same order, that they held
\* before the call.
C3_NoPartialApplication ==
    (Updated /\ result # "Ok") => (bids = preBids /\ asks = preAsks)

(***************************************************************************)
(* C4  Finite-price invariant                                              *)
(***************************************************************************)
\* C4: in every reachable state every price stored on either side is a
\* finite number; NaN and the infinities are never keys of a stored level.
C4_StoredPricesFinite ==
    \A l \in Levels(bids) \cup Levels(asks) : is_finite(l.p)

(***************************************************************************)
(* C5  Positive-size invariant                                             *)
(***************************************************************************)
\* C5: in every reachable state every level stored on either side has a
\* size strictly greater than 0.
C5_StoredSizesPositive ==
    \A l \in Levels(bids) \cup Levels(asks) : l.s > 0

\* a successful delta that removed a held bid with a size <= 0 entry and
\* left another bid in the book
C5_Witness ==
    /\ op = "apply_delta" /\ result = "Ok"
    /\ \E i \in 1..Len(argBids) :
          argBids[i].s <= 0 /\ argBids[i].p \in PricesOf(preBids)
    /\ Len(bids) < Len(preBids)
    /\ bids # <<>>

(***************************************************************************)
(* C6  Snapshot is a full replace                                          *)
(***************************************************************************)
\* C6: after a successful apply_snapshot(bids, asks) the set of prices on
\* each side is exactly the set of prices of that side's input entries with
\* size > 0, whatever the book held before.
C6_SnapshotFullReplace ==
    (op = "apply_snapshot" /\ result = "Ok")
        => /\ PricesOf(bids) = PositivePrices(argBids)
           /\ PricesOf(asks) = PositivePrices(argAsks)

\* a successful snapshot onto a book whose bid and ask levels are not in the
\* input, with a size-0 entry among the input
C6_Witness ==
    /\ op = "apply_snapshot" /\ result = "Ok"
    /\ \E p \in PricesOf(preBids) : p \notin PricesOf(bids)
    /\ preAsks # <<>> /\ asks = <<>>
    /\ \E i \in 1..Len(argBids) : argBids[i].s = 0
    /\ bids # <<>>

(***************************************************************************)
(* C7  Snapshot last-write-wins                                            *)
(***************************************************************************)
\* C7: after a successful apply_snapshot, for every price named in a side's
\* input with a positive size that side holds exactly one level at that
\* price, and its size is that of the last input entry, in input order, with
\* that price and size > 0.
LastWriteWins(m, v) ==
    \A p \in PositivePrices(v) :
        /\ Cardinality({i \in 1..Len(m) : m[i].p = p}) = 1
        /\ SizeAt(m, p) = v[Last(PositiveAt(v, p))].s

C7_SnapshotLastWriteWins ==
    (op = "apply_snapshot" /\ result = "Ok")
        => LastWriteWins(bids, argBids) /\ LastWriteWins(asks, argAsks)

\* a successful snapshot whose bid input names one price twice with two
\* different positive sizes
C7_Witness ==
    /\ op = "apply_snapshot" /\ result = "Ok"
    /\ Len(argBids) = 2
    /\ argBids[1].p = argBids[2].p
    /\ argBids[1].s > argBids[2].s
    /\ argBids[2].s > 0
    /\ Len(bids) = 1

(***************************************************************************)
(* C8  Delta merge semantics                                               *)
(***************************************************************************)
\* C8: a successful apply_delta leaves each side equal, as a set of levels
\* with one level per price, to the result of processing that side's entries
\* one by one in input order on the prior side: size > 0 sets the level at
\* the price, size <= 0 deletes it.
C8_DeltaMerge ==
    (op = "apply_delta" /\ result = "Ok")
        => /\ NoDuplicatePrice(bids)
           /\ AsMap(bids) = Processed(AsMap(preBids), argBids)
           /\ NoDuplicatePrice(asks)
           /\ AsMap(asks) = Processed(AsMap(preAsks), argAsks)

\* a successful delta that names a held bid price twice, the second entry
\* overwriting, while another bid level is not named and stays
C8_Witness ==
    /\ op = "apply_delta" /\ result = "Ok"
    /\ Len(argBids) = 2
    /\ argBids[1].p = argBids[2].p
    /\ argBids[1].s # argBids[2].s
    /\ argBids[2].s > 0
    /\ argBids[1].p \in PricesOf(preBids)
    /\ \E l \in Levels(preBids) : l.p # argBids[1].p /\ l \in Levels(bids)

(***************************************************************************)
(* C9  Delta no-op on absent remove                                        *)
(***************************************************************************)
\* C9: for every book state, an apply_delta all of whose entries have size
\* <= 0 and name prices their side does not hold succeeds and leaves both
\* sides with the same levels in the same order.
C9_AbsentRemoveNoOp ==
    (/\ op = "apply_delta"
     /\ argBids # <<>> \/ argAsks # <<>>
     /\ AbsentRemovals(preBids, argBids)
     /\ AbsentRemovals(preAsks, argAsks))
        => (result = "Ok" /\ bids = preBids /\ asks = preAsks)

(***************************************************************************)
(* C10  Snapshot idempotence                                               *)
(***************************************************************************)
\* C10: for every prior book and every input with finite prices,
\* apply_snapshot(bids, asks) succeeds, and calling it a second time with
\* the same input leaves both sides with the same ordered levels (on which
\* alone best_bid, best_ask, mid, microprice and imbalance depend).
C10_SnapshotIdempotent ==
    (op = "apply_snapshot" /\ FinitePrices(argBids) /\ FinitePrices(argAsks))
        => /\ result = "Ok"
           /\ apply_snapshot(Book, argBids, argAsks) =
                 [bids |-> bids, asks |-> asks, result |-> "Ok"]

\* a successful snapshot with levels on both sides, made on a book that held
\* other levels
C10_Witness ==
    /\ op = "apply_snapshot" /\ result = "Ok"
    /\ FinitePrices(argBids) /\ FinitePrices(argAsks)
    /\ bids # <<>> /\ asks # <<>>
    /\ preBids # <<>> /\ preBids # bids

(***************************************************************************)
(* C11  Best bid / best ask                                                *)
(***************************************************************************)
\* the level of side m whose price compares as rel to every other price of m
Extreme(m, l, rel) ==
    /\ l \in Levels(m)
    /\ \A o \in Levels(m) : o # l => partial_cmp(l.p, o.p) = rel

\* C11: in every state reached by successful calls alone, best_bid() is
\* the stored bid level with the highest price and best_ask() the stored ask
\* level with the lowest price, each with its stored size, and each is absent
\* exactly when its side is empty.
C11_BestLevels ==
    /\ (best_bid(Book) = None) <=> (bids = <<>>)
    /\ (best_ask(Book) = None) <=> (asks = <<>>)
    /\ bids # <<>> => Extreme(bids, best_bid(Book)[1], "Greater")
    /\ asks # <<>> => Extreme(asks, best_ask(Book)[1], "Less")

\* a successful delta that put a new bid above the best bid and a new ask
\* below the best ask
C11_Witness ==
    /\ op = "apply_delta" /\ result = "Ok"
    /\ preBids # <<>> /\ preAsks # <<>>
    /\ Len(bids) = Len(preBids) + 1
    /\ Len(asks) = Len(preAsks) + 1
    /\ best_bid(Book)[1].p \notin PricesOf(preBids)
    /\ best_ask(Book)[1].p \notin PricesOf(preAsks)

(***************************************************************************)
(* C12  Empty book and clear                                               *)
(***************************************************************************)
\* C12: on a new book and after clear() from any reachable state both sides
\* are empty, best_bid(), best_ask(), mid() and microprice() are absent and
\* imbalance(depth) is 0 for every depth.
C12_EmptyBook ==
    op \in {"new", "clear"}
        => /\ bids = <<>>
           /\ asks = <<>>
           /\ best_bid(Book) = None
           /\ best_ask(Book) = None
           /\ mid(Book) = None
           /\ microprice(Book) = None
           /\ \A depth \in Depths : imbalance(Book, depth) = Rat(0, 1)

\* a clear() of a book that held levels on both sides
C12_Witness ==
    /\ op = "clear"
    /\ preBids # <<>>
    /\ preAsks # <<>>
    /\ bids = <<>>

(***************************************************************************)
(* C13  Mid price                                                          *)
(***************************************************************************)
\* a price strictly greater than 0 (NaN is not)
StrictlyPositive(p) == p.k = "inf" \/ (p.k = "fin" /\ p.v > 0)

\* v is (bp + ap) / 2 for two strictly positive prices: twice v is their sum
\* when both are finite, and v is +infinity when one of them is
HalfSum(v, bp, ap) ==
    IF bp.k = "fin" /\ ap.k = "fin"
    THEN v.k = "fin" /\ 2 * v.n = v.d * (bp.v + ap.v)
    ELSE v.k = "inf" /\ v.n > 0

BothBestPositive ==
    /\ best_bid(Book) # None
    /\ best_ask(Book) # None
    /\ StrictlyPositive(best_bid(Book)[1].p)
    /\ StrictlyPositive(best_ask(Book)[1].p)

\* C13: mid() returns a value exactly when best_bid() and best_ask() are
\* both present with strictly positive prices, and the value is half the sum
\* of the two prices; in every other state mid() is absent.
C13_Mid ==
    /\ (mid(Book) # None) <=> BothBestPositive
    /\ BothBestPositive
          => HalfSum(mid(Book)[1], best_bid(Book)[1].p, best_ask(Book)[1].p)

\* a book with two levels a side whose best prices are finite and positive,
\* left by a successful call
C13_Witness ==
    /\ Updated /\ result = "Ok"
    /\ Len(bids) > 1 /\ Len(asks) > 1
    /\ is_finite(bids[1].p) /\ is_finite(asks[1].p)
    /\ mid(Book) # None

(***************************************************************************)
(* C14  Microprice                                                         *)
(***************************************************************************)
\* v is bp*(as/(bs+as)) + ap*(bs/(bs+as)) for finite sizes with bs + as > 0
\* (bs and as are stored sizes, so both weights are positive): for finite
\* prices v*(bs+as) is bp*as + ap*bs; a NaN price makes v NaN; otherwise an
\* infinite price makes v +infinity
WeightedByOpposite(v, bp, bs, ap, as) ==
    IF is_nan(bp) \/ is_nan(ap) THEN v.k = "nan"
    ELSE IF ~is_finite(bp) \/ ~is_finite(ap) THEN v.k = "inf" /\ v.n > 0
    ELSE v.k = "fin" /\ v.n * (bs + as) = v.d * (bp.v * as + ap.v * bs)

BestSizesPositive ==
    /\ best_bid(Book) # None
    /\ best_ask(Book) # None
    /\ best_bid(Book)[1].s + best_ask(Book)[1].s > 0

\* C14: with both sides non-empty and bs + as > 0, microprice() is
\* bp*(as/(bs+as)) + ap*(bs/(bs+as)), each best price weighted by the other
\* side's best size; with a side empty or bs + as = 0 it is what mid() is.
C14_Microprice ==
    /\ BestSizesPositive
          => /\ microprice(Book) # None
             /\ WeightedByOpposite(microprice(Book)[1],
                                   best_bid(Book)[1].p, best_bid(Book)[1].s,
                                   best_ask(Book)[1].p, best_ask(Book)[1].s)
    /\ ~BestSizesPositive => microprice(Book) = mid(Book)

\* a book left by a successful call whose best levels differ in price and in
\* size, both prices finite
C14_Witness ==
    /\ Updated /\ result = "Ok"
    /\ bids # <<>> /\ asks # <<>>
    /\ is_finite(bids[1].p) /\ is_finite(asks[1].p)
    /\ bids[1].p # asks[1].p
    /\ bids[1].s # asks[1].s
    /\ microprice(Book) # None

(***************************************************************************)
(* C15  Imbalance value                                                    *)
(***************************************************************************)
\* the number of levels of side m that imbalance(depth) counts
Counted(m, depth) == IF depth < Len(m) THEN depth ELSE Len(m)

\* the sum of the (finite) sizes of the first n levels of m
RECURSIVE Volume(_, _)
Volume(m, n) == IF n = 0 THEN 0 ELSE Volume(m, n - 1) + m[n].s

\* v is (bv - av) / (bv + av), and exactly 0 when bv + av = 0
NormalisedDifference(v, bv, av) ==
    IF bv + av = 0 THEN v = Rat(0, 1)
    ELSE v.k = "fin" /\ v.n * (bv + av) = v.d * (bv - av)

\* imbalance(depth) is the normalised difference of the volumes of the
\* first min(depth, number of levels) levels of each side
ImbalanceOfFirstLevels ==
    \A depth \in Depths :
        NormalisedDifference(imbalance(Book, depth),
                             Volume(bids, Counted(bids, depth)),
                             Volume(asks, Counted(asks, depth)))

\* the first n levels of m are its n best-priced ones: each compares as rel
\* to every level after them
FirstAreBest(m, n, rel) ==
    \A i \in 1..n : \A j \in (n + 1)..Len(m) : partial_cmp(m[i].p, m[j].p) = rel

\* C15: in every reachable state and for every depth, imbalance(depth) is
\* (bid_vol - ask_vol) / (bid_vol + ask_vol) over the first
\* min(depth, number of levels) levels of each side, which are the
\* highest-priced bids and the lowest-priced asks; it is exactly 0 when
\* bid_vol + ask_vol = 0 (depth 0, the empty book), and a depth larger than
\* the book is clamped.
C15_ImbalanceValue ==
    /\ ImbalanceOfFirstLevels
    /\ \A depth \in Depths :
          /\ FirstAreBest(bids, Counted(bids, depth), "Greater")
          /\ FirstAreBest(asks, Counted(asks, depth), "Less")

(***************************************************************************)
(* C16  Imbalance range                                                    *)
(***************************************************************************)
\* a finite value: equal to c, and within [-1, 1]
IsInteger(v, c) == v.k = "fin" /\ v.n = c * v.d
InUnitRange(v) == v.k = "fin" /\ Abs(v.n) <= v.d

\* C16: in every state reached by successful calls alone and for every
\* depth, imbalance(depth) lies in [-1, 1]; it is 1 only when the counted ask
\* volume is 0 and -1 only when the counted bid volume is 0.
C16_ImbalanceRange ==
    \A depth \in Depths :
        LET v == imbalance(Book, depth) IN
        /\ InUnitRange(v)
        /\ IsInteger(v, 1) => f64_eq_zero(sum(take(asks, depth)))
        /\ IsInteger(v, -1) => f64_eq_zero(sum(take(bids, depth)))

(***************************************************************************)
(* C17  Removing the best level promotes the next one                      *)
(***************************************************************************)
\* the call was a delta whose only entry asks to remove the best level of
\* the side that was pre
RemovesBest(pre, arg, other) ==
    /\ op = "apply_delta"
    /\ other = <<>>
    /\ Len(arg) = 1
    /\ pre # <<>>
    /\ arg[1].p = pre[1].p
    /\ arg[1].s <= 0

\* the level that was second in pre, absent if pre had one level
Promoted(pre) == IF Len(pre) >= 2 THEN Some(pre[2]) ELSE None

\* C17: from any state, an apply_delta whose only entry is (price of the
\* best bid, size <= 0) makes best_bid() the level that was second in bid
\* order, and absent if the removed level was the only one; the same for the
\* asks.
C17_RemoveBestPromotesNext ==
    /\ RemovesBest(preBids, argBids, argAsks) => best_bid(Book) = Promoted(preBids)
    /\ RemovesBest(preAsks, argAsks, argBids) => best_ask(Book) = Promoted(preAsks)

(***************************************************************************)
(* C18  Crossed book is tolerated                                          *)
(***************************************************************************)
\* what a snapshot keeps of a side's entries, on a price-to-size map: a
\* positive size sets the level, any other entry is ignored
RECURSIVE Kept(_, _)
Kept(f, v) ==
    IF v = <<>> THEN f
    ELSE Kept(IF v[1].s > 0 THEN [f EXCEPT ![v[1].p] = v[1].s] ELSE f, Tail(v))

\* the side the call is to leave, taken for itself
Expected(pre, arg) ==
    IF op = "apply_snapshot" THEN Kept([p \in Prices |-> 0], arg)
    ELSE Processed(AsMap(pre), arg)

\* some bid level is priced at or above some ask level
CrossedMaps(fb, fa) ==
    \E pb, pa \in Prices :
        fb[pb] > 0 /\ fa[pa] > 0 /\ partial_cmp(pb, pa) \in {"Greater", "Equal"}

NaNFree(m) == \A i \in 1..Len(m) : ~is_nan(m[i].p)

\* C18: apply_snapshot and apply_delta never fail, and never alter or drop a
\* level, because the best bid price ends at or above the best ask price:
\* a call free of NaN prices whose sides, each taken for itself, come out
\* crossed succeeds and leaves exactly those sides, each in order, with
\* unique prices and positive sizes, and the best levels are those of each
\* side.
C18_CrossedTolerated ==
    (/\ Updated
     /\ NaNFree(argBids) /\ NaNFree(argAsks) /\ NaNFree(preBids) /\ NaNFree(preAsks)
     /\ CrossedMaps(Expected(preBids, argBids), Expected(preAsks, argAsks)))
        => /\ result = "Ok"
           /\ AsMap(bids) = Expected(preBids, argBids)
           /\ AsMap(asks) = Expected(preAsks, argAsks)
           /\ StrictlyDescending(bids) /\ NoDuplicatePrice(bids)
           /\ StrictlyAscending(asks) /\ NoDuplicatePrice(asks)
           /\ \A l \in Levels(bids) \cup Levels(asks) : l.s > 0
           /\ Extreme(bids, best_bid(Book)[1], "Greater")
           /\ Extreme(asks, best_ask(Book)[1], "Less")
           /\ partial_cmp(best_bid(Book)[1].p, best_ask(Book)[1].p) \in {"Greater", "Equal"}

\* a successful delta that crossed a book that was not crossed: the best bid
\* is now above the best ask, two levels a side
C18_Witness ==
    /\ op = "apply_delta" /\ result = "Ok"
    /\ preBids # <<>> /\ preAsks # <<>>
    /\ partial_cmp(preBids[1].p, preAsks[1].p) = "Less"
    /\ Len(bids) > 1 /\ Len(asks) > 1
    /\ partial_cmp(bids[1].p, asks[1].p) = "Greater"

(***************************************************************************)
(* C19  Snapshot and delta agree on batches without repeated prices        *)
(***************************************************************************)
NoRepeatedPrice(v) == \A i, j \in 1..Len(v) : i # j => v[i].p # v[j].p

\* the book clear() leaves
Cleared == [bids |-> <<>>, asks |-> <<>>]

\* C19: for a batch with finite prices none of which is repeated within a
\* side, apply_snapshot(bids, asks) on any prior book leaves exactly the
\* book, with the same ordered levels on both sides, that
\* clear(); apply_delta(bids, asks) leaves; the two can differ only on a
\* batch that repeats a price within a side.
C19_SnapshotIsDeltaOnCleared ==
    (/\ op = "apply_snapshot"
     /\ FinitePrices(argBids) /\ FinitePrices(argAsks)
     /\ NoRepeatedPrice(argBids) /\ NoRepeatedPrice(argAsks))
        => apply_delta(Cleared, argBids, argAsks) =
              [bids |-> bids, asks |-> asks, result |-> result]

\* a snapshot on a non-empty book whose bids come in ascending price order,
\* two prices with positive sizes, so that each path has to sort them
C19_Witness ==
    /\ op = "apply_snapshot" /\ result = "Ok"
    /\ preBids # <<>> /\ preAsks # <<>>
    /\ Len(argBids) = 2
    /\ FinitePrices(argBids)
    /\ partial_cmp(argBids[1].p, argBids[2].p) = "Less"
    /\ argBids[1].s > 0 /\ argBids[2].s > 0
    /\ Len(bids) = 2

(***************************************************************************)
(* C20  Microprice presence                                                *)
(***************************************************************************)
SideEmpty == bids = <<>> \/ asks = <<>>

\* C20: in every state reached by successful calls alone, microprice() is
\* absent exactly when a side is empty: with both sides present the two best
\* sizes add up to more than 0, and where microprice() falls back to mid(),
\* mid() has no value.
C20_MicropricePresence ==
    /\ (microprice(Book) = None) <=> SideEmpty
    /\ ~SideEmpty => f64_gt_zero(f64_add(size_f64(bids[1].s), size_f64(asks[1].s)))
    /\ SideEmpty => mid(Book) = None

\* a book left by a successful call with both sides present and a best bid
\* price of 0: mid() is absent, microprice() has a value
C20_Witness ==
    /\ Updated /\ result = "Ok"
    /\ bids # <<>> /\ asks # <<>>
    /\ bids[1].p = Fin(0)
    /\ mid(Book) = None
    /\ microprice(Book) # None
=============================================================================
